---- MODULE Spec2Model ----
(***************************************************************************)
(* Bump heap allocator (kernel/src/allocator.rs) and kernel bring-up       *)
(* (kernel/src/main.rs).                                                   *)
(*                                                                         *)
(* Addresses are machine words.  On x86_64 usize has 64 bits; TLC's        *)
(* integers have 32, so the word is modelled with UsizeBits bits and every *)
(* address of the model is placed relative to the top of that word.        *)
(* HEAP_SIZE keeps its real value.                                         *)
(***************************************************************************)
EXTENDS Integers, Sequences, FiniteSets, TLC

UsizeBits == 29
MaxCalls == 3
MaxFrees == 1
MaxEvents == 4
TickBits == 2
MaxShellEvents == 2

USIZE_MAX == 2^UsizeBits - 1
ISIZE_MAX == 2^(UsizeBits - 1) - 1

\* allocator.rs:13  pub const HEAP_SIZE: usize = 100 * 1024;
HEAP_SIZE == 102400

\* null_mut()
NULL == 0

---------------------------------------------------------------------------
(* usize arithmetic *)

saturating_add(a, b) == IF a + b > USIZE_MAX THEN USIZE_MAX ELSE a + b

saturating_sub(a, b) == IF a < b THEN 0 ELSE a - b

wrapping_add(a, b) == (a + b) % (USIZE_MAX + 1)

RECURSIVE BitAndN(_, _, _)
BitAndN(x, y, n) ==
    IF n = 0 THEN 0
    ELSE (x % 2) * (y % 2) + 2 * BitAndN(x \div 2, y \div 2, n - 1)

\* x & y on usize
BitAnd(x, y) == BitAndN(x, y, UsizeBits)

\* !x on usize
BitNot(x) == USIZE_MAX - x

Min(a, b) == IF a < b THEN a ELSE b

---------------------------------------------------------------------------
(* Inputs *)

\* An aligned base, a base that is only 4-aligned, and a page-aligned base
\* in the topmost MiB of the address space.
LowBase == 2^20
OddBase == 2^20 + 4
HighBase == 2^UsizeBits - 2^20
Bases == {LowBase, OddBase, HighBase}

BigAlign == 2^(UsizeBits - 2)
Sizes == {0, 8, HEAP_SIZE - 8}
Aligns == {1, 8, BigAlign}

\* Layout::from_size_align: align is a power of two (all of Aligns are) and
\* size rounded up to align does not exceed isize::MAX.
ValidLayout(size, align) ==
    ((size + align - 1) \div align) * align <= ISIZE_MAX

Layouts == {l \in Sizes \X Aligns : ValidLayout(l[1], l[2])}

---------------------------------------------------------------------------
(* allocator.rs *)

VARIABLES
    HEAP_START,      \* static mut HEAP_START
    OFFSET,          \* static mut OFFSET
    overflowChecks,  \* the build: TRUE = arithmetic overflow panics, FALSE = it wraps
    panicked,        \* the kernel has panicked: nothing runs any more
    inits,           \* number of init_heap calls so far
    calls,           \* number of alloc calls so far
    last,            \* the most recent allocator call and its result
    returned,        \* the non-null results of alloc so far: <<[addr, size, align]>>
    freed,           \* the blocks passed to dealloc so far, each with the number
                     \* of blocks alloc had returned when it was freed
    refOffset,       \* OFFSET of the same run of alloc calls without the dealloc calls
    cpus             \* per processor, the call of alloc it is executing: its
                     \* position and the locals heap_start and current - heap_start

allocVars == <<HEAP_START, OFFSET, overflowChecks, panicked, inits, calls, last,
               returned, freed, refOffset, cpus>>

\* align_up rounding down: the mask is applied without adding it first
align_up_rounds_down(addr, align) ==
    LET mask == align - 1
    IN  BitAnd(addr, BitNot(mask))

\* align_up with the complement taken of align instead of align - 1
align_up_notalign(addr, align) ==
    LET mask == align - 1
    IN  BitAnd(wrapping_add(addr, mask), BitNot(align))

\* fn align_up(addr, align): the value computed when the addition wraps
align_up(addr, align) ==
    LET mask == align - 1
    IN  BitAnd(wrapping_add(addr, mask), BitNot(mask))

\* addr + mask in align_up exceeds usize::MAX
align_up_overflows(addr, align) == addr + (align - 1) > USIZE_MAX

\* alloc with the capacity test leaving out the request's size
alloc_unsized_test(heap_start, offset, size, align) ==
    LET current    == saturating_add(heap_start, offset)
        aligned    == align_up(current, align)
        new_offset == saturating_add(saturating_sub(aligned, heap_start), size)
    IN  IF saturating_sub(aligned, heap_start) > HEAP_SIZE
        THEN [ptr |-> NULL, OFFSET |-> offset,
              overflow |-> align_up_overflows(current, align)]
        ELSE [ptr |-> aligned, OFFSET |-> new_offset,
              overflow |-> align_up_overflows(current, align)]

\* alloc storing the new offset before the capacity test
alloc_store_first(heap_start, offset, size, align) ==
    LET current    == saturating_add(heap_start, offset)
        aligned    == align_up(current, align)
        new_offset == saturating_add(saturating_sub(aligned, heap_start), size)
    IN  IF new_offset > HEAP_SIZE
        THEN [ptr |-> NULL, OFFSET |-> new_offset,
              overflow |-> align_up_overflows(current, align)]
        ELSE [ptr |-> aligned, OFFSET |-> new_offset,
              overflow |-> align_up_overflows(current, align)]

\* alloc aligning the offset within the arena instead of the address
alloc_aligns_offset(heap_start, offset, size, align) ==
    LET aligned    == saturating_add(heap_start, align_up(offset, align))
        new_offset == saturating_add(saturating_sub(aligned, heap_start), size)
    IN  IF new_offset > HEAP_SIZE
        THEN [ptr |-> NULL, OFFSET |-> offset,
              overflow |-> align_up_overflows(offset, align)]
        ELSE [ptr |-> aligned, OFFSET |-> new_offset,
              overflow |-> align_up_overflows(offset, align)]

\* DummyAllocator::alloc on the statics (heap_start, offset): the pointer
\* returned, the new value of OFFSET, and whether align_up's addition overflowed
alloc(heap_start, offset, size, align) ==
    LET current    == saturating_add(heap_start, offset)
        aligned    == align_up(current, align)
        new_offset == saturating_add(saturating_sub(aligned, heap_start), size)
    IN  IF new_offset > HEAP_SIZE
        THEN [ptr |-> NULL, OFFSET |-> offset,
              overflow |-> align_up_overflows(current, align)]
        ELSE [ptr |-> aligned, OFFSET |-> new_offset,
              overflow |-> align_up_overflows(current, align)]

\* DummyAllocator::dealloc: writes a log line, touches neither static
dealloc(heap_start, offset, ptr) == [HEAP_START |-> heap_start, OFFSET |-> offset]

\* pub fn memstat() -> (used, total)
memstat == <<Min(OFFSET, HEAP_SIZE), HEAP_SIZE>>

NoCall == [op |-> "none"]

\* The processors that may execute alloc
CPUs == {"cpu0", "cpu1"}

NoCpus == [c \in CPUs |-> [pc |-> "idle"]]

AllocInit ==
    /\ HEAP_START = 0
    /\ OFFSET = 0
    /\ overflowChecks \in BOOLEAN
    /\ panicked = FALSE
    /\ inits = 0
    /\ calls = 0
    /\ last = NoCall
    /\ returned = <<>>
    /\ freed = {}
    /\ refOffset = 0
    /\ cpus = NoCpus

\* pub fn init_heap(offset)
init_heap(base) ==
    /\ HEAP_START' = base
    /\ OFFSET' = 0
    /\ refOffset' = 0
    /\ inits' = inits + 1
    /\ last' = [op |-> "init_heap", base |-> base]
    /\ UNCHANGED <<overflowChecks, panicked, calls, returned, freed, cpus>>

\* The allocator's statics and the record kept of its calls
HeapNow ==
    [HEAP_START |-> HEAP_START, OFFSET |-> OFFSET, panicked |-> panicked,
     calls |-> calls, last |-> last, returned |-> returned, freed |-> freed,
     refOffset |-> refOffset]

\* The state h after one call of ALLOCATOR.alloc(Layout { size, align }).
\* abortOnNull: the caller is Box/String/Vec, which end in handle_alloc_error
\* on a null result.  checks: the build panics on arithmetic overflow.
heap_alloc(h, size, align, abortOnNull, checks) ==
    LET r   == alloc(h.HEAP_START, h.OFFSET, size, align)
        ref == alloc(h.HEAP_START, h.refOffset, size, align)
    IN  IF r.overflow /\ checks
        THEN \* attempt to add with overflow: panic inside align_up
             [h EXCEPT !.calls = @ + 1,
                       !.panicked = TRUE,
                       !.last = [op |-> "alloc", size |-> size, align |-> align,
                                 outcome |-> "panic", before |-> h.OFFSET,
                                 base |-> h.HEAP_START]]
        ELSE [h EXCEPT !.calls = @ + 1,
                       !.OFFSET = r.OFFSET,
                       !.refOffset = ref.OFFSET,
                       !.last = [op |-> "alloc", size |-> size, align |-> align,
                                 outcome |-> "returned", before |-> h.OFFSET,
                                 base |-> h.HEAP_START,
                                 ptr |-> r.ptr, refPtr |-> ref.ptr],
                       !.returned = IF r.ptr # NULL
                                    THEN Append(@, [addr |-> r.ptr, size |-> size,
                                                    align |-> align])
                                    ELSE @,
                       !.panicked = (abortOnNull /\ r.ptr = NULL)]

\* The state h after one call of ALLOCATOR.dealloc(ptr, layout)
heap_dealloc(h, ptr, size) ==
    LET r == dealloc(h.HEAP_START, h.OFFSET, ptr)
    IN  [h EXCEPT !.HEAP_START = r.HEAP_START,
                  !.OFFSET = r.OFFSET,
                  !.freed = @ \cup {[addr |-> ptr, size |-> size,
                                     at |-> Len(h.returned)]},
                  !.last = [op |-> "dealloc", ptr |-> ptr, before |-> h.OFFSET,
                            base |-> h.HEAP_START]]

SetHeap(h) ==
    /\ HEAP_START' = h.HEAP_START
    /\ OFFSET' = h.OFFSET
    /\ panicked' = h.panicked
    /\ calls' = h.calls
    /\ last' = h.last
    /\ returned' = h.returned
    /\ freed' = h.freed
    /\ refOffset' = h.refOffset
    /\ UNCHANGED <<overflowChecks, inits, cpus>>

\* One call of ALLOCATOR.alloc(Layout { size, align })
AllocCall(size, align, abortOnNull) ==
    SetHeap(heap_alloc(HeapNow, size, align, abortOnNull, overflowChecks))

\* One call of ALLOCATOR.dealloc(ptr, layout)
DeallocCall(ptr, size) == SetHeap(heap_dealloc(HeapNow, ptr, size))

\* The blocks a caller can pass to dealloc: what alloc returned, and a stray pointer
Blocks == {[addr |-> returned[i].addr, size |-> returned[i].size] : i \in DOMAIN returned}
          \cup {[addr |-> NULL, size |-> 8]}

---------------------------------------------------------------------------
(* main.rs: kernel_main, the dispatch loop it starts, and the callbacks *)

VARIABLES
    boot,         \* BootInfo: memory_regions, physical_memory_offset, rsdp_addr
    pc,           \* index of the next statement of kernel_main; 0 = not entered
    bringup,      \* the bring-up steps kernel_main has performed, in order
    table,        \* HandlerTable: its state and the registrations per event kind
    phase,        \* dispatch loop: "off", "startup", "halted" or "callback"
    current,      \* the events whose callbacks are executing now
    pending,      \* events raised by the hardware and not yet delivered
    raised,       \* number of interrupts raised so far
    counts,       \* startup runs, waits, and per kind: delivered, invoked
    SHELL,        \* Mutex<Shell>: locked, and the Shell: buf (with the capacity
                  \* and address of its storage) and ticks
    screen,       \* the screen's current row and the cursor's column in it
    written,      \* the characters the most recent callback wrote to Writer
    cb            \* the most recent callback: its kind, the key it got, the
                  \* Shell, lock, screen and OFFSET at its entry, its use of the lock

ioVars == <<screen, written, cb>>

kernelVars == <<boot, pc, bringup, table, phase, current, pending, raised, counts, SHELL,
                ioVars>>

vars == <<allocVars, kernelVars>>

Kinds == {"keyboard", "timer", "startup"}

\* The statements of kernel_main that change state, in program order
kernel_main_apic_first ==
    <<"usable_region", "physical_offset", "init_heap", "init_apic", "gdt::init",
      "Box::new", "Box::new", "HandlerTable::new", "keyboard", "timer",
      "startup", "start">>

kernel_main_no_timer ==
    <<"usable_region", "physical_offset", "init_heap", "gdt::init",
      "Box::new", "Box::new", "init_apic", "HandlerTable::new", "keyboard",
      "startup", "start">>

kernel_main_no_startup ==
    <<"usable_region", "physical_offset", "init_heap", "gdt::init",
      "Box::new", "Box::new", "init_apic", "HandlerTable::new", "keyboard",
      "timer", "start">>

kernel_main ==
    <<"usable_region", "physical_offset", "init_heap", "gdt::init",
      "Box::new", "Box::new", "init_apic", "HandlerTable::new", "keyboard",
      "timer", "startup", "start">>

Stmt == IF pc \in DOMAIN kernel_main THEN kernel_main[pc] ELSE "none"

Region(start, end, kind) == [start |-> start, end |-> end, kind |-> kind]

\* Region lists the boot loader may hand over
MemoryRegionLists ==
    { <<Region(0, 4096, "Bootloader")>>,
      <<Region(4096, 2^20, "Usable"), Region(2^20, 2^21, "Usable")>>,
      <<Region(2^20, 2^21, "Usable"), Region(2^21, 2^21 + 4096, "Usable"),
        Region(2^22, 2^23, "UnknownBios")>> }

None == -1

BootInfos ==
    [memory_regions : MemoryRegionLists,
     physical_memory_offset : {None, 2^24},
     rsdp_addr : {None, 2^16}]

\* memory_regions.iter().filter(|x| x.kind == Usable).last()
UsableIndices(regions) == {i \in DOMAIN regions : regions[i].kind = "Usable"}

LastUsable(regions) ==
    LET I == UsableIndices(regions)
    IN  regions[CHOOSE i \in I : \A j \in I : j <= i]

usable_region == LastUsable(boot.memory_regions)

\* Shell::new(): String::new() owns no storage
Shell_new == [buf |-> <<>>, cap |-> 0, ptr |-> NULL, ticks |-> 0]

NoKey == [t |-> "none", c |-> "none"]

NoCallback == [kind |-> "none", key |-> NoKey, acquired |-> 0, bare |-> FALSE,
               spin |-> FALSE]

BlankScreen == [row |-> <<>>, col |-> 0]

KernelOff ==
    /\ pc = 0
    /\ bringup = <<>>
    /\ table = [state |-> "none", registered |-> [k \in Kinds |-> 0]]
    /\ phase = "off"
    /\ current = <<>>
    /\ pending = {}
    /\ raised = 0
    /\ counts = [startup |-> 0, waits |-> 0,
                 delivered |-> [k \in Kinds |-> 0], invoked |-> [k \in Kinds |-> 0]]
    /\ SHELL = [locked |-> FALSE, sh |-> Shell_new]
    /\ screen = BlankScreen
    /\ written = <<>>
    /\ cb = NoCallback

Step(label) ==
    /\ pc' = pc + 1
    /\ bringup' = Append(bringup, label)

Panic ==
    /\ panicked' = TRUE
    /\ UNCHANGED <<HEAP_START, OFFSET, overflowChecks, inits, calls, last, returned,
                   freed, refOffset, cpus>>
    /\ UNCHANGED kernelVars

\* main.rs:135  ...filter(Usable).last().unwrap()
SelectUsableRegion ==
    /\ ~panicked
    /\ Stmt = "usable_region"
    /\ IF UsableIndices(boot.memory_regions) = {}
       THEN Panic
       ELSE /\ pc' = pc + 1
            /\ UNCHANGED <<boot, bringup, table, phase, current, pending, raised,
                           counts, SHELL, ioVars>>
            /\ UNCHANGED allocVars

\* main.rs:138  physical_memory_offset.take().expect(..)
TakePhysicalOffset ==
    /\ ~panicked
    /\ Stmt = "physical_offset"
    /\ IF boot.physical_memory_offset = None
       THEN Panic
       ELSE /\ pc' = pc + 1
            /\ UNCHANGED <<boot, bringup, table, phase, current, pending, raised,
                           counts, SHELL, ioVars>>
            /\ UNCHANGED allocVars

\* main.rs:155  allocator::init_heap((physical_offset + usable_region.start) as usize)
KernelInitHeap ==
    /\ ~panicked
    /\ Stmt = "init_heap"
    /\ init_heap(boot.physical_memory_offset + usable_region.start)
    /\ Step("init_heap")
    /\ UNCHANGED <<boot, table, phase, current, pending, raised, counts, SHELL, ioVars>>

\* main.rs:161  gdt::init()
GdtInit ==
    /\ ~panicked
    /\ Stmt = "gdt::init"
    /\ Step("gdt::init")
    /\ UNCHANGED <<boot, table, phase, current, pending, raised, counts, SHELL, ioVars>>
    /\ UNCHANGED allocVars

\* main.rs:164-165  Box::new(42), Box::new(24): an i32 each; a null result
\* ends in handle_alloc_error
BoxNew ==
    /\ ~panicked
    /\ Stmt = "Box::new"
    /\ AllocCall(4, 4, TRUE)
    /\ IF panicked' THEN UNCHANGED <<pc, bringup>> ELSE Step("alloc")
    /\ UNCHANGED <<boot, table, phase, current, pending, raised, counts, SHELL, ioVars>>

\* main.rs:172  interrupts::init_apic(rsdp.expect(..), ..)
InitApic ==
    /\ ~panicked
    /\ Stmt = "init_apic"
    /\ IF boot.rsdp_addr = None
       THEN Panic
       ELSE /\ Step("init_apic")
            /\ UNCHANGED <<boot, table, phase, current, pending, raised, counts, SHELL, ioVars>>
            /\ UNCHANGED allocVars

\* HandlerTable::new(): an empty table, Registering
HandlerTable_new == [state |-> "Registering", registered |-> [k \in Kinds |-> 0]]

\* HandlerTable::keyboard / timer / startup: attach the callback of one kind
HandlerTable_register(t, kind) ==
    [t EXCEPT !.registered[kind] = @ + 1]

\* HandlerTable::start(lapic): Registering -> Running
HandlerTable_start(t) == [t EXCEPT !.state = "Running"]

\* main.rs:173
NewTable ==
    /\ ~panicked
    /\ Stmt = "HandlerTable::new"
    /\ table' = HandlerTable_new
    /\ Step("HandlerTable::new")
    /\ UNCHANGED <<boot, phase, current, pending, raised, counts, SHELL, ioVars>>
    /\ UNCHANGED allocVars

\* main.rs:174-176  .keyboard(key) .timer(tick) .startup(start)
Register ==
    /\ ~panicked
    /\ Stmt \in Kinds
    /\ table.state = "Registering"
    /\ table' = HandlerTable_register(table, Stmt)
    /\ Step(Stmt)
    /\ UNCHANGED <<boot, phase, current, pending, raised, counts, SHELL, ioVars>>
    /\ UNCHANGED allocVars

\* main.rs:177  .start(lapic_ptr): never returns
Start ==
    /\ ~panicked
    /\ Stmt = "start"
    /\ table.state = "Registering"
    /\ table' = HandlerTable_start(table)
    /\ bringup' = Append(bringup, "start")
    /\ phase' = "startup"
    /\ UNCHANGED <<boot, pc, current, pending, raised, counts, SHELL, ioVars>>
    /\ UNCHANGED allocVars


\* Events the hardware delivers: a timer tick, or a decoded key
Keys == { [t |-> "Unicode", c |-> "\n"], [t |-> "Unicode", c |-> "a"],
          [t |-> "Unicode", c |-> " "], [t |-> "RawKey", c |-> "Backspace"],
          [t |-> "RawKey", c |-> "F1"] }

Events == {[kind |-> "timer"]} \cup {[kind |-> "keyboard", key |-> k] : k \in Keys}

U64_MOD == 2^TickBits

Max(a, b) == IF a > b THEN a ELSE b


Digits == <<"0", "1", "2", "3", "4", "5", "6", "7", "8", "9">>

\* The operators below that are applied to one another's results bind their
\* first argument through a one-element set,
\*     CHOOSE result \in {body : m \in {m0}} : TRUE,
\* which is body with m the value of m0, the value being computed once.

\* Display of an unsigned integer: "{}"
RECURSIVE Decimal(_)
Decimal(n0) ==
    CHOOSE result \in {
            IF n < 10 THEN <<Digits[n + 1]>>
            ELSE Decimal(n \div 10) \o <<Digits[(n % 10) + 1]>>
        : n \in {n0}} : TRUE

IsSpace(c) == c \in {" ", "\n", "\r", "\t"}

\* Length of the longest prefix of s without whitespace
RECURSIVE WordLen(_)
WordLen(s0) ==
    CHOOSE result \in {
            IF s = <<>> \/ IsSpace(Head(s)) THEN 0 ELSE 1 + WordLen(Tail(s))
        : s \in {s0}} : TRUE

\* str::split_whitespace, collected
RECURSIVE Words(_)
Words(s0) ==
    CHOOSE result \in {
            IF s = <<>> THEN <<>>
            ELSE IF IsSpace(Head(s)) THEN Words(Tail(s))
            ELSE <<SubSeq(s, 1, WordLen(s))>> \o Words(SubSeq(s, WordLen(s) + 1, Len(s)))
        : s \in {s0}} : TRUE

\* [&str]::join(" ")
RECURSIVE Join(_)
Join(ws0) ==
    CHOOSE result \in {
            IF ws = <<>> THEN <<>>
            ELSE IF Len(ws) = 1 THEN ws[1]
            ELSE ws[1] \o <<" ">> \o Join(Tail(ws))
        : ws \in {ws0}} : TRUE

\* The screen writer draws one character: newline opens an empty row,
\* carriage return moves the cursor to the row's first column, any other
\* character replaces the cell under the cursor and moves the cursor right
put(scr0, c) ==
    CHOOSE result \in {
            IF c = "\n" THEN [row |-> <<>>, col |-> 0]
            ELSE IF c = "\r" THEN [scr EXCEPT !.col = 0]
            ELSE [row |-> IF scr.col < Len(scr.row)
                          THEN [scr.row EXCEPT ![scr.col + 1] = c]
                          ELSE Append(scr.row, c),
                  col |-> scr.col + 1]
        : scr \in {scr0}} : TRUE

RECURSIVE Render(_, _)
Render(scr0, s) ==
    CHOOSE result \in {
            IF s = <<>> THEN scr ELSE Render(put(scr, Head(s)), Tail(s))
        : scr \in {scr0}} : TRUE

\* A callback in execution: the Shell and its lock, the allocator, the
\* screen, and what the callback has written and done with the lock so far
Machine ==
    [sh |-> SHELL.sh, locked |-> SHELL.locked, acquired |-> 0, bare |-> FALSE,
     spin |-> FALSE, heap |-> HeapNow, checks |-> overflowChecks,
     screen |-> screen, written |-> <<>>]

\* The callback runs no further: the kernel has panicked, or it spins on the lock
Stopped(m) == m.heap.panicked \/ m.spin

\* SHELL.lock(): spin::Mutex spins while the lock is held
Lock(m0) ==
    CHOOSE result \in {
            IF Stopped(m) THEN m
            ELSE IF m.locked THEN [m EXCEPT !.spin = TRUE]
            ELSE [m EXCEPT !.locked = TRUE, !.acquired = @ + 1]
        : m \in {m0}} : TRUE

\* The MutexGuard is dropped
Unlock(m0) ==
    CHOOSE result \in {
            IF Stopped(m) THEN m ELSE [m EXCEPT !.locked = FALSE]
        : m \in {m0}} : TRUE

\* A method of Shell runs on the Shell: record whether the lock is held
OnShell(m0) ==
    CHOOSE result \in {
            IF m.locked THEN m ELSE [m EXCEPT !.bare = TRUE]
        : m \in {m0}} : TRUE

\* write!(Writer, ..) of the characters s
write(m0, s) ==
    CHOOSE result \in {
            IF Stopped(m) THEN m
            ELSE [m EXCEPT !.written = @ \o s, !.screen = Render(@, s)]
        : m \in {m0}} : TRUE

\* n times write!(Writer, " ")
RECURSIVE write_spaces(_, _)
write_spaces(m0, n) ==
    CHOOSE result \in {
            IF n = 0 THEN m ELSE write_spaces(write(m, <<" ">>), n - 1)
        : m \in {m0}} : TRUE

\* An owner that takes a null result for a block and carries on
m_alloc_ignores_null(m0, size, align) ==
    CHOOSE result \in {
            IF Stopped(m) THEN m
            ELSE [m EXCEPT !.heap = heap_alloc(m.heap, size, align, FALSE, m.checks)]
        : m \in {m0}} : TRUE

\* ALLOCATOR.alloc by an owner that ends in handle_alloc_error on null
m_alloc(m0, size, align) ==
    CHOOSE result \in {
            IF Stopped(m) THEN m
            ELSE [m EXCEPT !.heap = heap_alloc(m.heap, size, align, TRUE, m.checks)]
        : m \in {m0}} : TRUE

\* ALLOCATOR.dealloc of a block of cap bytes; an owner without storage frees nothing
m_dealloc(m0, ptr, cap) ==
    CHOOSE result \in {
            IF Stopped(m) \/ cap = 0 THEN m
            ELSE [m EXCEPT !.heap = heap_dealloc(m.heap, ptr, cap)]
        : m \in {m0}} : TRUE

\* String::push of a one-byte character: a full buffer first grows to
\* max(8, 2 * cap, len + 1) bytes in a new block and frees the old one
push(m0, c) ==
    CHOOSE result \in {
            IF Stopped(m) THEN m
            ELSE IF Len(m.sh.buf) < m.sh.cap
            THEN [m EXCEPT !.sh.buf = Append(@, c)]
            ELSE LET newcap == Max(8, Max(2 * m.sh.cap, Len(m.sh.buf) + 1))
                     m1     == m_alloc(m, newcap, 1)
                     m2     == m_dealloc(m1, m.sh.ptr, m.sh.cap)
                 IN  IF Stopped(m1) THEN m1
                     ELSE [m2 EXCEPT !.sh.buf = Append(@, c),
                                     !.sh.cap = newcap,
                                     !.sh.ptr = m1.heap.last.ptr]
        : m \in {m0}} : TRUE

\* Shell::prompt
prompt(m0) ==
    CHOOSE result \in {
            write(OnShell(m), <<">", " ">>)
        : m \in {m0}} : TRUE

\* Shell::redraw_line
redraw_line(m0) ==
    CHOOSE result \in {
            LET len == 2 + Len(m.sh.buf)
                m1  == write(OnShell(m), <<"\r">>)
                m2  == write_spaces(m1, len)
                m3  == write(m2, <<"\r">>)
                m4  == write(m3, <<">", " ">>)
            IN  write(m4, m.sh.buf)
        : m \in {m0}} : TRUE

\* Size of a &str, the element of Vec<&str>
STR_REF_SIZE == 16

\* parts.collect::<Vec<&str>>(): no storage for no element, else room for 4
\* elements, doubled (new block, old one freed) while the elements do not fit
RECURSIVE vec_grow(_, _, _, _)
vec_grow(m0, ptr, cap, n) ==
    CHOOSE result \in {
            IF Stopped(m) \/ n <= cap THEN [m |-> m, ptr |-> ptr, cap |-> cap]
            ELSE LET m1 == m_alloc(m, 2 * cap * STR_REF_SIZE, 8)
                     m2 == m_dealloc(m1, ptr, cap * STR_REF_SIZE)
                 IN  IF Stopped(m1) THEN [m |-> m1, ptr |-> ptr, cap |-> cap]
                     ELSE vec_grow(m2, m1.heap.last.ptr, 2 * cap, n)
        : m \in {m0}} : TRUE

collect(m0, n) ==
    CHOOSE result \in {
            IF n = 0 THEN [m |-> m, ptr |-> NULL, cap |-> 0]
            ELSE LET m1 == m_alloc(m, 4 * STR_REF_SIZE, 8)
                 IN  IF Stopped(m1) THEN [m |-> m1, ptr |-> NULL, cap |-> 0]
                     ELSE vec_grow(m1, m1.heap.last.ptr, 4, n)
        : m \in {m0}} : TRUE

\* The match in Shell::execute with an empty default arm
run_command_silent(m0, cmd, args) ==
    CHOOSE result \in {
            IF cmd = <<"e", "c", "h", "o">>
            THEN IF args # <<>>
                 THEN LET joined == Join(args)
                          m1     == m_alloc(m, Len(joined), 1)
                          m2     == write(m1, joined \o <<"\n">>)
                      IN  IF Stopped(m1) THEN m1
                          ELSE m_dealloc(m2, m1.heap.last.ptr, Len(joined))
                 ELSE m
            ELSE IF cmd = <<"c", "l", "e", "a", "r">>
            THEN [m EXCEPT !.screen = BlankScreen]
            ELSE IF cmd = <<"t", "i", "c", "k", "s">>
            THEN write(m, Decimal(m.sh.ticks) \o <<"\n">>)
            ELSE IF cmd = <<"m", "e", "m", "s", "t", "a", "t">>
            THEN write(m, <<"u", "s", "e", "d", ":", " ">> \o Decimal(Min(m.heap.OFFSET, HEAP_SIZE)) \o <<" ", "/", " ">>
                          \o Decimal(HEAP_SIZE) \o <<" ", "b", "y", "t", "e", "s">> \o <<"\n">>)
            ELSE IF cmd = <<"h", "e", "l", "p">>
            THEN LET h1 == write(m, <<"B", "u", "i", "l", "t", "-", "i", "n", "s", ":">> \o <<"\n">>)
                     h2 == write(h1,
                               <<" ", " ", "e", "c", "h", "o", " ", "[", "t", "e", "x", "t", ".", ".", ".", "]", " ", " ", "-", " ", "p", "r", "i", "n", "t", " ", "t", "e", "x", "t">>
                               \o <<"\n">>)
                     h3 == write(h2,
                               <<" ", " ", "c", "l", "e", "a", "r", " ", " ", " ", " ", " ", " ", " ", " ", " ", " ", " ", "-", " ", "c", "l", "e", "a", "r", " ", "s", "c", "r", "e", "e", "n">>
                               \o <<"\n">>)
                     h4 == write(h3,
                               <<" ", " ", "t", "i", "c", "k", "s", " ", " ", " ", " ", " ", " ", " ", " ", " ", " ", " ", "-", " ", "s", "h", "o", "w", " ", "t", "i", "m", "e", "r", " ", "t", "i", "c", "k", "s">>
                               \o <<"\n">>)
                     h5 == write(h4,
                               <<" ", " ", "m", "e", "m", "s", "t", "a", "t", " ", " ", " ", " ", " ", " ", " ", " ", " ", "-", " ", "s", "h", "o", "w", " ", "a", "l", "l", "o", "c", "a", "t", "o", "r", " ", "u", "s", "a", "g", "e">>
                               \o <<"\n">>)
                     h6 == write(h5,
                               <<" ", " ", "h", "e", "l", "p", " ", " ", " ", " ", " ", " ", " ", " ", " ", " ", " ", " ", "-", " ", "t", "h", "i", "s", " ", "m", "e", "s", "s", "a", "g", "e">>
                               \o <<"\n">>)
                 IN  h6
            ELSE m
        : m \in {m0}} : TRUE

\* The arms of the match in Shell::execute
run_command(m0, cmd, args) ==
    CHOOSE result \in {
            IF cmd = <<"e", "c", "h", "o">>
            THEN IF args # <<>>
                 THEN LET joined == Join(args)
                          m1     == m_alloc(m, Len(joined), 1)
                          m2     == write(m1, joined \o <<"\n">>)
                      IN  IF Stopped(m1) THEN m1
                          ELSE m_dealloc(m2, m1.heap.last.ptr, Len(joined))
                 ELSE m
            ELSE IF cmd = <<"c", "l", "e", "a", "r">>
            THEN [m EXCEPT !.screen = BlankScreen]
            ELSE IF cmd = <<"t", "i", "c", "k", "s">>
            THEN write(m, Decimal(m.sh.ticks) \o <<"\n">>)
            ELSE IF cmd = <<"m", "e", "m", "s", "t", "a", "t">>
            THEN write(m, <<"u", "s", "e", "d", ":", " ">> \o Decimal(Min(m.heap.OFFSET, HEAP_SIZE)) \o <<" ", "/", " ">>
                          \o Decimal(HEAP_SIZE) \o <<" ", "b", "y", "t", "e", "s">> \o <<"\n">>)
            ELSE IF cmd = <<"h", "e", "l", "p">>
            THEN LET h1 == write(m, <<"B", "u", "i", "l", "t", "-", "i", "n", "s", ":">> \o <<"\n">>)
                     h2 == write(h1,
                               <<" ", " ", "e", "c", "h", "o", " ", "[", "t", "e", "x", "t", ".", ".", ".", "]", " ", " ", "-", " ", "p", "r", "i", "n", "t", " ", "t", "e", "x", "t">>
                               \o <<"\n">>)
                     h3 == write(h2,
                               <<" ", " ", "c", "l", "e", "a", "r", " ", " ", " ", " ", " ", " ", " ", " ", " ", " ", " ", "-", " ", "c", "l", "e", "a", "r", " ", "s", "c", "r", "e", "e", "n">>
                               \o <<"\n">>)
                     h4 == write(h3,
                               <<" ", " ", "t", "i", "c", "k", "s", " ", " ", " ", " ", " ", " ", " ", " ", " ", " ", " ", "-", " ", "s", "h", "o", "w", " ", "t", "i", "m", "e", "r", " ", "t", "i", "c", "k", "s">>
                               \o <<"\n">>)
                     h5 == write(h4,
                               <<" ", " ", "m", "e", "m", "s", "t", "a", "t", " ", " ", " ", " ", " ", " ", " ", " ", " ", "-", " ", "s", "h", "o", "w", " ", "a", "l", "l", "o", "c", "a", "t", "o", "r", " ", "u", "s", "a", "g", "e">>
                               \o <<"\n">>)
                     h6 == write(h5,
                               <<" ", " ", "h", "e", "l", "p", " ", " ", " ", " ", " ", " ", " ", " ", " ", " ", " ", " ", "-", " ", "t", "h", "i", "s", " ", "m", "e", "s", "s", "a", "g", "e">>
                               \o <<"\n">>)
                 IN  h6
            ELSE write(m, <<"u", "n", "k", "n", "o", "w", "n", ":", " ">> \o cmd \o <<"\n">>)
        : m \in {m0}} : TRUE

\* Shell::execute: takes the buffer, runs its first word as a command on
\* the other words, and drops the argument vector and the taken buffer
execute(m0) ==
    CHOOSE result \in {
            IF Stopped(m) THEN m
            ELSE LET input == m.sh
                     mt    == [OnShell(m) EXCEPT !.sh.buf = <<>>, !.sh.cap = 0, !.sh.ptr = NULL]
                     parts == Words(input.buf)
                 IN  IF parts = <<>>
                     THEN m_dealloc(mt, input.ptr, input.cap)
                     ELSE LET v  == collect(mt, Len(parts) - 1)
                              m1 == run_command(v.m, Head(parts), Tail(parts))
                              m2 == m_dealloc(m1, v.ptr, v.cap * STR_REF_SIZE)
                          IN  m_dealloc(m2, input.ptr, input.cap)
        : m \in {m0}} : TRUE

\* Shell::handle_key redrawing on every Backspace, also on an empty buffer
handle_key_always_redraws(m0, k) ==
    CHOOSE result \in {
            IF Stopped(m) THEN m
            ELSE IF k.t = "Unicode" /\ k.c = "\n"
            THEN LET m1 == execute(write(OnShell(m), <<"\n">>))
                 IN  IF Stopped(m1) THEN m1 ELSE prompt([m1 EXCEPT !.sh.buf = <<>>])
            ELSE IF k.t = "Unicode"
            THEN write(push(OnShell(m), k.c), <<k.c>>)
            ELSE IF k.c = "Backspace"
            THEN redraw_line([OnShell(m) EXCEPT !.sh.buf = SubSeq(@, 1, Len(@) - 1)])
            ELSE m
        : m \in {m0}} : TRUE

\* Shell::handle_key
handle_key(m0, k) ==
    CHOOSE result \in {
            IF Stopped(m) THEN m
            ELSE IF k.t = "Unicode" /\ k.c = "\n"
            THEN LET m1 == execute(write(OnShell(m), <<"\n">>))
                 IN  IF Stopped(m1) THEN m1 ELSE prompt([m1 EXCEPT !.sh.buf = <<>>])
            ELSE IF k.t = "Unicode"
            THEN write(push(OnShell(m), k.c), <<k.c>>)
            ELSE IF k.c = "Backspace"
            THEN IF m.sh.buf # <<>>
                 THEN redraw_line([OnShell(m) EXCEPT !.sh.buf = SubSeq(@, 1, Len(@) - 1)])
                 ELSE m
            ELSE m
        : m \in {m0}} : TRUE

\* fn start(): SHELL.lock().prompt()
start(m0) ==
    CHOOSE result \in {
            Unlock(prompt(Lock(m)))
        : m \in {m0}} : TRUE

\* tick with a saturating increment
tick_saturating(m0) ==
    CHOOSE result \in {
            LET m1 == Lock(m)
            IN  IF Stopped(m1) THEN m1
                ELSE Unlock([OnShell(m1) EXCEPT !.sh.ticks = Min(@ + 1, U64_MOD - 1)])
        : m \in {m0}} : TRUE

\* tick that also starts a fresh line buffer
tick_resets_line(m0) ==
    CHOOSE result \in {
            LET m1 == Lock(m)
            IN  IF Stopped(m1) THEN m1
                ELSE Unlock([OnShell(m1) EXCEPT !.sh.ticks = (@ + 1) % U64_MOD,
                                                !.sh.buf = <<>>])
        : m \in {m0}} : TRUE

\* fn tick(): sh.ticks = sh.ticks.wrapping_add(1)
tick(m0) ==
    CHOOSE result \in {
            LET m1 == Lock(m)
            IN  IF Stopped(m1) THEN m1
                ELSE Unlock([OnShell(m1) EXCEPT !.sh.ticks = (@ + 1) % U64_MOD])
        : m \in {m0}} : TRUE

\* key taking the lock again for the call while the first guard is alive
key_locks_twice(m0, k) ==
    CHOOSE result \in {
            Unlock(handle_key(Lock(Lock(m)), k))
        : m \in {m0}} : TRUE

\* fn key(key): SHELL.lock().handle_key(key)
key(m0, k) ==
    CHOOSE result \in {
            Unlock(handle_key(Lock(m), k))
        : m \in {m0}} : TRUE

\* The state after the callback of event e has run to machine state m
Ran(e, m) ==
    /\ SHELL' = [locked |-> m.locked, sh |-> m.sh]
    /\ SetHeap(m.heap)
    /\ screen' = m.screen
    /\ written' = m.written
    /\ cb' = [kind |-> e.kind,
              key |-> IF e.kind = "keyboard" THEN e.key ELSE NoKey,
              sh |-> SHELL.sh, locked |-> SHELL.locked, screen |-> screen,
              OFFSET |-> OFFSET,
              acquired |-> m.acquired, bare |-> m.bare, spin |-> m.spin]

\* The dispatch loop, first step after start: the startup callback, run
\* synchronously, then the first halt
RunStartup ==
    /\ ~panicked
    /\ phase = "startup"
    /\ \E reg \in {table.registered["startup"] > 0} :
       \E m \in {IF reg THEN start(Machine) ELSE Machine} :
           /\ IF reg THEN Ran([kind |-> "startup"], m)
              ELSE UNCHANGED <<SHELL, ioVars, allocVars>>
           /\ IF Stopped(m)
              THEN UNCHANGED <<counts, phase>>
              ELSE /\ counts' = [counts EXCEPT !.startup = @ + (IF reg THEN 1 ELSE 0),
                                               !.waits = @ + 1]
                   /\ phase' = "halted"
    /\ UNCHANGED <<boot, pc, bringup, table, current, pending, raised>>

\* The timer or the keyboard controller raises an interrupt, at most n in a run
RaiseUpTo(n) ==
    /\ ~panicked
    /\ phase # "off"
    /\ raised < n
    /\ \E e \in Events \ pending :
           /\ pending' = pending \cup {e}
           /\ raised' = raised + 1
    /\ UNCHANGED <<boot, pc, bringup, table, phase, current, counts, SHELL, ioVars>>
    /\ UNCHANGED allocVars

Raise == RaiseUpTo(MaxEvents)

\* The halted processor takes a pending interrupt; interrupts stay masked
\* until its handler returns
Deliver ==
    /\ ~panicked
    /\ phase = "halted"
    /\ \E e \in pending :
           /\ pending' = pending \ {e}
           /\ current' = Append(current, e)
           /\ counts' = [counts EXCEPT !.delivered[e.kind] = @ + 1]
    /\ phase' = "callback"
    /\ UNCHANGED <<boot, pc, bringup, table, raised, SHELL, ioVars>>
    /\ UNCHANGED allocVars

\* The handler invokes the event's callback, acknowledges the controller and
\* returns to the halt; a callback that panics or spins never returns
Callback ==
    /\ ~panicked
    /\ phase = "callback"
    /\ ~cb.spin
    /\ \E e \in {Head(current)} :
       \E reg \in {table.registered[e.kind] > 0} :
       \E m \in {IF ~reg THEN Machine
                  ELSE IF e.kind = "timer" THEN tick(Machine)
                  ELSE key(Machine, e.key)} :
           /\ IF reg THEN Ran(e, m)
              ELSE UNCHANGED <<SHELL, ioVars, allocVars>>
           /\ IF Stopped(m)
              THEN UNCHANGED <<counts, current, phase>>
              ELSE /\ counts' = [counts EXCEPT
                                   !.invoked[e.kind] = @ + (IF reg THEN 1 ELSE 0),
                                   !.waits = @ + 1]
                   /\ current' = Tail(current)
                   /\ phase' = "halted"
    /\ UNCHANGED <<boot, pc, bringup, table, pending, raised>>

---------------------------------------------------------------------------
(* Specifications *)

FreedBlocks == {[addr |-> f.addr, size |-> f.size] : f \in freed}



InitHeap ==
    /\ inits = 0
    /\ \E base \in Bases : init_heap(base)
    /\ UNCHANGED kernelVars

Alloc ==
    /\ inits = 1
    /\ ~panicked
    /\ calls < MaxCalls
    /\ \E l \in Layouts : AllocCall(l[1], l[2], FALSE)
    /\ UNCHANGED kernelVars

Dealloc ==
    /\ inits = 1
    /\ ~panicked
    /\ Cardinality(freed) < MaxFrees
    /\ \E b \in Blocks \ FreedBlocks : DeallocCall(b.addr, b.size)
    /\ UNCHANGED kernelVars

\* The allocator driven through its interface: one init_heap, then any
\* alloc and dealloc calls; kernel_main is not running
Init ==
    /\ AllocInit
    /\ KernelOff
    /\ boot = [memory_regions |-> <<>>, physical_memory_offset |-> None,
               rsdp_addr |-> None]

Next == InitHeap \/ Alloc \/ Dealloc

Spec == Init /\ [][Next]_vars

\* The kernel running from its entry point on the boot loader's BootInfo
KernelInit ==
    /\ AllocInit
    /\ boot \in BootInfos
    /\ pc = 1
    /\ bringup = <<>>
    /\ table = [state |-> "none", registered |-> [k \in Kinds |-> 0]]
    /\ phase = "off"
    /\ current = <<>>
    /\ pending = {}
    /\ raised = 0
    /\ counts = [startup |-> 0, waits |-> 0,
                 delivered |-> [k \in Kinds |-> 0], invoked |-> [k \in Kinds |-> 0]]
    /\ SHELL = [locked |-> FALSE, sh |-> Shell_new]
    /\ screen = BlankScreen
    /\ written = <<>>
    /\ cb = NoCallback

KernelNext ==
    \/ SelectUsableRegion
    \/ TakePhysicalOffset
    \/ KernelInitHeap
    \/ GdtInit
    \/ BoxNew
    \/ InitApic
    \/ NewTable
    \/ Register
    \/ Start
    \/ RunStartup
    \/ Raise
    \/ Deliver
    \/ Callback

KernelSpec == KernelInit /\ [][KernelNext]_vars

\* Lines a user may have typed at the prompt, the newline not yet pressed
Texts ==
    { <<>>,
      <<"a">>,
      <<"a", "b">>,
      <<" ">>,
      <<"a", " ", "b">>,
      <<"b", "o", "g", "u", "s">>,
      <<"b", "o", "g", "u", "s", " ", "x">>,
      <<"e", "c", "h", "o">>,
      <<"e", "c", "h", "o", " ", "a", " ", "b">>,
      <<"c", "l", "e", "a", "r">>,
      <<"t", "i", "c", "k", "s">>,
      <<"m", "e", "m", "s", "t", "a", "t">>,
      <<"h", "e", "l", "p">>,
      <<"e", "c", "h", "o", " ", "a", " ", "b", " ", "c", " ", "d", " ", "e">> }

\* Values of OFFSET the kernel reaches before the storage of the current
\* line: the two boxes of kernel_main take 8 bytes, every line entered since
\* has left its 8-byte buffer behind
Used == {8, HEAP_SIZE - 72, HEAP_SIZE - 16, HEAP_SIZE - 8, HEAP_SIZE}

\* The kernel in its dispatch loop: either Running has just been entered
\* (the startup callback is still to run), or it halts at the prompt some
\* time after boot, a line typed so far, earlier lines' buffers still in the
\* arena, the timer having run.  returned lists the blocks still owned: the
\* boxes and the line's buffer (16 bytes once the line outgrew 8, the 8-byte
\* buffer left behind).
ShellInit ==
    \E t \in Texts, u \in Used, k \in {0, U64_MOD - 1}, started \in BOOLEAN :
        LET base  == 2^24 + 2^20
            cap   == IF t = <<>> THEN 0 ELSE IF Len(t) <= 8 THEN 8 ELSE 16
            owned == IF cap = 16 THEN 24 ELSE cap
            ptr   == IF cap = 0 THEN NULL ELSE base + u + owned - cap
            lines == (u - 8) \div 8
            keys  == 2 * lines + Len(t)
            n     == [e \in Kinds |-> IF e = "keyboard" THEN keys
                                      ELSE IF e = "timer" THEN k ELSE 0]
        IN  /\ u + owned <= HEAP_SIZE
            /\ ~started => (t = <<>> /\ u = 8 /\ k = 0)
            /\ boot = [memory_regions |-> <<Region(4096, 2^20, "Usable"),
                                            Region(2^20, 2^21, "Usable")>>,
                       physical_memory_offset |-> 2^24, rsdp_addr |-> 2^16]
            /\ HEAP_START = base
            /\ OFFSET = u + owned
            /\ refOffset = u + owned
            /\ overflowChecks \in BOOLEAN
            /\ panicked = FALSE
            /\ inits = 1
            /\ calls = 2 + lines + owned \div 8
            /\ last = NoCall
            /\ returned = <<[addr |-> base, size |-> 4, align |-> 4],
                            [addr |-> base + 4, size |-> 4, align |-> 4]>>
                          \o (IF cap = 0 THEN <<>>
                              ELSE <<[addr |-> ptr, size |-> cap, align |-> 1]>>)
            /\ freed = {}
            /\ cpus = NoCpus
            /\ pc = Len(kernel_main)
            /\ bringup = <<"init_heap", "gdt::init", "alloc", "alloc", "init_apic",
                           "HandlerTable::new", "keyboard", "timer", "startup",
                           "start">>
            /\ table = [state |-> "Running", registered |-> [e \in Kinds |-> 1]]
            /\ phase = IF started THEN "halted" ELSE "startup"
            /\ current = <<>>
            /\ pending = {}
            /\ raised = 0
            /\ counts = [startup |-> IF started THEN 1 ELSE 0,
                         waits |-> IF started THEN 1 + keys + k ELSE 0,
                         delivered |-> n, invoked |-> n]
            /\ SHELL = [locked |-> FALSE,
                        sh |-> [buf |-> t, cap |-> cap, ptr |-> ptr, ticks |-> k]]
            /\ screen = IF started
                        THEN [row |-> <<">", " ">> \o t, col |-> 2 + Len(t)]
                        ELSE BlankScreen
            /\ written = <<>>
            /\ cb = NoCallback

ShellRaise == RaiseUpTo(MaxShellEvents)

ShellNext == RunStartup \/ ShellRaise \/ Deliver \/ Callback

ShellSpec == ShellInit /\ [][ShellNext]_vars

\* Two processors calling alloc with nothing to order them: HEAP_START and
\* OFFSET are static mut, read at allocator.rs:24-25 and written at
\* allocator.rs:33 with no lock in between; the interleavings of these
\* reads and writes are the outcomes of the race.

\* A processor enters alloc(Layout { size, align })
RaceCall ==
    /\ ~panicked
    /\ calls + Cardinality({c \in CPUs : cpus[c].pc # "idle"}) < MaxCalls
    /\ \E c \in CPUs, l \in Layouts :
           /\ cpus[c].pc = "idle"
           /\ cpus' = [cpus EXCEPT ![c] = [pc |-> "called", size |-> l[1],
                                           align |-> l[2]]]
    /\ UNCHANGED <<HEAP_START, OFFSET, overflowChecks, panicked, inits, calls, last,
                   returned, freed, refOffset>>
    /\ UNCHANGED kernelVars

\* allocator.rs:24-25: it reads HEAP_START and OFFSET
RaceLoad ==
    /\ ~panicked
    /\ \E c \in CPUs :
           /\ cpus[c].pc = "called"
           /\ cpus' = [cpus EXCEPT ![c] = [pc |-> "loaded", size |-> @.size,
                                           align |-> @.align,
                                           heap_start |-> HEAP_START,
                                           offset |-> OFFSET]]
    /\ UNCHANGED <<HEAP_START, OFFSET, overflowChecks, panicked, inits, calls, last,
                   returned, freed, refOffset>>
    /\ UNCHANGED kernelVars

\* allocator.rs:26-34: it computes on what it read, tests the capacity, and
\* either returns null or writes OFFSET and returns the address
RaceStore ==
    /\ ~panicked
    /\ \E c \in CPUs :
           /\ cpus[c].pc = "loaded"
           /\ LET me == cpus[c]
                  r  == alloc(me.heap_start, me.offset, me.size, me.align)
              IN  /\ panicked' = (r.overflow /\ overflowChecks)
                  /\ OFFSET' = IF panicked' \/ r.ptr = NULL THEN OFFSET ELSE r.OFFSET
                  /\ refOffset' = OFFSET'
                  /\ returned' = IF panicked' \/ r.ptr = NULL THEN returned
                                 ELSE Append(returned, [addr |-> r.ptr, size |-> me.size,
                                                        align |-> me.align])
                  /\ last' = [op |-> "alloc", size |-> me.size, align |-> me.align,
                              outcome |-> IF panicked' THEN "panic" ELSE "returned",
                              before |-> me.offset, base |-> me.heap_start,
                              ptr |-> r.ptr, refPtr |-> r.ptr]
           /\ calls' = calls + 1
           /\ cpus' = [cpus EXCEPT ![c] = [pc |-> "idle"]]
    /\ UNCHANGED <<HEAP_START, overflowChecks, inits, freed>>
    /\ UNCHANGED kernelVars

\* The arena initialised once, at a base low in the address space
RaceInit ==
    /\ \E base \in {LowBase, OddBase} :
           /\ HEAP_START = base
           /\ last = [op |-> "init_heap", base |-> base]
    /\ OFFSET = 0
    /\ refOffset = 0
    /\ overflowChecks \in BOOLEAN
    /\ panicked = FALSE
    /\ inits = 1
    /\ calls = 0
    /\ returned = <<>>
    /\ freed = {}
    /\ cpus = NoCpus
    /\ KernelOff
    /\ boot = [memory_regions |-> <<>>, physical_memory_offset |-> None,
               rsdp_addr |-> None]

RaceNext == RaceCall \/ RaceLoad \/ RaceStore

RaceSpec == RaceInit /\ [][RaceNext]_vars

---------------------------------------------------------------------------
(* Heap allocator properties *)

\* Two blocks share a byte
Overlap(a, b) ==
    /\ a.size > 0
    /\ b.size > 0
    /\ a.addr < b.addr + b.size
    /\ b.addr < a.addr + a.size

\* The offset alloc tests against HEAP_SIZE, before the request's size is added
AlignedOffset(base, offset, align) ==
    saturating_sub(align_up(saturating_add(base, offset), align), base)

LastReturned == last.op = "alloc" /\ last.outcome = "returned"

\* C1: after one init_heap, no two blocks that alloc returned (non-null)
\* overlap, whatever the sizes, alignments and dealloc calls in between.
C1_NoOverlap ==
    \A i, j \in DOMAIN returned : i < j => ~Overlap(returned[i], returned[j])

C3_Aligned ==
    /\ \A i \in DOMAIN returned : returned[i].addr % returned[i].align = 0
    /\ LastReturned => last.ptr % last.align = 0

\* An 8-aligned block was returned from an arena whose base is not 8-aligned.
C3_Witness ==
    /\ HEAP_START % 8 # 0
    /\ \E i \in DOMAIN returned : returned[i].align = 8

C6_MemstatBounded ==
    inits = 1 =>
        /\ OFFSET <= 102400
        /\ memstat = <<OFFSET, 102400>>
        /\ memstat[1] <= memstat[2]

\* The arena is full and a request has just been refused.
C6_Witness ==
    /\ inits = 1
    /\ OFFSET = HEAP_SIZE
    /\ LastReturned
    /\ last.ptr = NULL
    /\ last.size > 0

\* C7: after init_heap, the used value of memstat never decreases from one
\* step to the next.
C7_UsedMonotonic ==
    [][inits = 1 => memstat'[1] >= memstat[1]]_vars

---------------------------------------------------------------------------
(* Bring-up and dispatch properties *)

\* C8: when the dispatch loop is Running, each of keyboard, timer and
\* startup has been registered exactly once; and from Running on, the
\* handler table never changes again: no registration, no other state.
C8_RegisteredBeforeRunning ==
    /\ [](table.state = "Running" => \A k \in Kinds : table.registered[k] = 1)
    /\ [][table.state = "Running" => table' = table]_vars

\* The loop is Running and has served a timer and a keyboard interrupt.
C8_Witness ==
    /\ table.state = "Running"
    /\ counts.invoked["timer"] >= 1
    /\ counts.invoked["keyboard"] >= 1

\* C9: the startup callback runs at most once, and has run exactly once by
\* the first wait, hence before any timer or keyboard callback; every
\* interrupt delivered has had its callback invoked exactly once, or is the
\* one being handled; and at most one callback executes at any time.
C9_StartupOnceCallbacksSerial ==
    /\ counts.startup <= 1
    /\ counts.waits >= 1 => counts.startup = 1
    /\ \A k \in {"timer", "keyboard"} :
           /\ counts.invoked[k] >= 1 => (counts.startup = 1 /\ counts.waits >= 1)
           /\ counts.delivered[k] =
                  counts.invoked[k] + Len(SelectSeq(current, LAMBDA e : e.kind = k))
    /\ Len(current) <= 1
    /\ phase = "halted" => current = <<>>

\* Two interrupts have been handled one after the other and a third waits
\* while a callback executes.
C9_Witness ==
    /\ counts.invoked["timer"] + counts.invoked["keyboard"] >= 2
    /\ phase = "callback"
    /\ pending # {}

Count(label) == Cardinality({i \in DOMAIN bringup : bringup[i] = label})

\* Every occurrence of step b has an occurrence of step a before it
Precedes(a, b) ==
    \A j \in DOMAIN bringup :
        bringup[j] = b => \E i \in 1..(j - 1) : bringup[i] = a

\* C10: kernel_main calls init_heap at most once (exactly once by the time
\* the loop runs) and before anything else of the bring-up, then gdt::init,
\* then allocates, then init_apic, then registers the handlers, then start;
\* no alloc call precedes init_heap.
C10_BringupOrder ==
    /\ inits <= 1
    /\ Count("init_heap") = inits
    /\ calls > 0 => inits = 1
    /\ table.state = "Running" => inits = 1
    /\ Precedes("init_heap", "gdt::init")
    /\ Precedes("gdt::init", "alloc")
    /\ Precedes("alloc", "init_apic")
    /\ Precedes("gdt::init", "init_apic")
    /\ \A k \in Kinds : Precedes("init_apic", k) /\ Precedes(k, "start")
    /\ Precedes("init_apic", "start")

\* kernel_main has gone through the whole bring-up and started the loop.
C10_Witness ==
    /\ bringup # <<>>
    /\ bringup[Len(bringup)] = "start"
    /\ Len(returned) = 2
    /\ phase = "halted"

\* The least multiple of a that is at least x
RoundUp(x, a) == ((x + a - 1) \div a) * a

\* The last call of alloc returned a block
LastSucceeded == LastReturned /\ last.ptr # NULL

C19_ArenaInsideRegion ==
    (inits = 1 /\ pc > 0) =>
        /\ HEAP_START = boot.physical_memory_offset + usable_region.start
        /\ HEAP_START + HEAP_SIZE <= boot.physical_memory_offset + usable_region.end
        /\ usable_region.end - usable_region.start >= HEAP_SIZE

---------------------------------------------------------------------------
(* Shell properties *)

Newline == [t |-> "Unicode", c |-> "\n"]

Backspace == [t |-> "RawKey", c |-> "Backspace"]

\* The most recent callback was key(k)
KeyRan(k) == cb.kind = "keyboard" /\ cb.key = k

Spaces(n) == [i \in 1..n |-> " "]

Front(s) == SubSeq(s, 1, Len(s) - 1)

\* A row as it shows: without its trailing blanks
RECURSIVE Visible(_)
Visible(row) ==
    IF row # <<>> /\ row[Len(row)] = " " THEN Visible(Front(row)) ELSE row

Commands ==
    { <<"e", "c", "h", "o">>, <<"c", "l", "e", "a", "r">>, <<"t", "i", "c", "k", "s">>, <<"m", "e", "m", "s", "t", "a", "t">>, <<"h", "e", "l", "p">> }

\* The most recent callback was a newline on a line whose first word is no command
UnknownLine ==
    /\ KeyRan(Newline)
    /\ Words(cb.sh.buf) # <<>>
    /\ Head(Words(cb.sh.buf)) \notin Commands

\* The diagnostic was printed and the shell is back at a fresh prompt
Recovered ==
    /\ written = <<"\n">> \o <<"u", "n", "k", "n", "o", "w", "n", ":", " ">> \o Head(Words(cb.sh.buf))
                 \o <<"\n", ">", " ">>
    /\ SHELL.sh = [Shell_new EXCEPT !.ticks = cb.sh.ticks]
    /\ ~SHELL.locked
    /\ screen = [row |-> <<">", " ">>, col |-> 2]

C12_UnknownNotFatal == UnknownLine => (~panicked /\ Recovered)

\* C12 amended: such a newline prints "unknown: <word>" and leaves the shell
\* at a fresh prompt with the tick counter unchanged, unless the line has
\* further words and the arena cannot hold their argument vector: then alloc
\* returns null and the kernel crashes in execute with only the line break
\* written.  A line of one word is never fatal.
C12_UnknownFatalOnlyOnExhaustion ==
    UnknownLine =>
        /\ Len(Words(cb.sh.buf)) = 1 => ~panicked
        /\ IF panicked
           THEN /\ last.op = "alloc"
                /\ last.align = 8
                /\ last.ptr = NULL
                /\ written = <<"\n">>
                /\ SHELL.sh.ticks = cb.sh.ticks
           ELSE Recovered

\* An unknown command with an argument was entered and answered.
C12_Witness ==
    /\ UnknownLine
    /\ Len(Words(cb.sh.buf)) = 2
    /\ ~panicked
    /\ written = <<"\n">> \o <<"u", "n", "k", "n", "o", "w", "n", ":", " ", "b", "o", "g", "u", "s">> \o <<"\n", ">", " ">>
    /\ phase = "halted"

\* C13: Backspace on an empty buffer changes nothing: the buffer stays
\* empty, nothing is written and the screen is as it was.
C13_BackspaceOnEmptyInert ==
    (KeyRan(Backspace) /\ cb.sh.buf = <<>>) =>
        /\ SHELL.sh = cb.sh
        /\ written = <<>>
        /\ screen = cb.screen
        /\ OFFSET = cb.OFFSET
        /\ ~panicked

\* Backspace was handled at an empty prompt.
C13_Witness ==
    /\ KeyRan(Backspace)
    /\ cb.sh.buf = <<>>
    /\ screen.row = <<">", " ">>
    /\ phase = "halted"

\* C14: the timer callback adds one to the tick counter modulo its width:
\* from the maximum value it goes to 0 without error, the lock is released,
\* and a key typed afterwards is handled as usual.
C14_TickWraps ==
    /\ cb.kind = "timer" =>
           /\ SHELL.sh.ticks = IF cb.sh.ticks = U64_MOD - 1 THEN 0
                                ELSE cb.sh.ticks + 1
           /\ ~panicked
           /\ ~cb.spin
           /\ ~SHELL.locked
    /\ (KeyRan([t |-> "Unicode", c |-> "a"]) /\ ~panicked) =>
           /\ SHELL.sh.buf = Append(cb.sh.buf, "a")
           /\ written = <<"a">>

\* The counter has wrapped from its maximum to 0 and a key typed after that
\* was appended to the line.
C14_Witness ==
    /\ counts.invoked["timer"] = U64_MOD
    /\ SHELL.sh.ticks = 0
    /\ KeyRan([t |-> "Unicode", c |-> "a"])
    /\ SHELL.sh.buf = Append(cb.sh.buf, "a")
    /\ phase = "halted"

\* C16: every callback finds the SHELL lock free, takes it exactly once,
\* touches the Shell only while holding it, never spins, and has released it
\* when it returns: the lock is free whenever the loop halts.
C16_LockDiscipline ==
    /\ cb.kind # "none" =>
           /\ ~cb.locked
           /\ cb.acquired = 1
           /\ ~cb.bare
           /\ ~cb.spin
           /\ ~panicked => ~SHELL.locked
    /\ phase \in {"halted", "startup"} => ~SHELL.locked

\* A key callback has executed a command line and returned.
C16_Witness ==
    /\ KeyRan(Newline)
    /\ Words(cb.sh.buf) # <<>>
    /\ Head(Words(cb.sh.buf)) \in Commands
    /\ cb.acquired = 1
    /\ ~panicked
    /\ phase = "halted"

\* C18: Backspace on a non-empty buffer removes the last character and
\* redraws: it overwrites with spaces the length rendered before (the prompt
\* and the buffer as it was), then reprints the prompt and the shortened
\* buffer, so the row shows "> " and the buffer and nothing else.
C18_BackspaceErasesLine ==
    (KeyRan(Backspace) /\ cb.sh.buf # <<>>) =>
        /\ SHELL.sh.buf = Front(cb.sh.buf)
        /\ written = <<"\r">> \o Spaces(2 + Len(cb.sh.buf)) \o <<"\r", ">", " ">>
                     \o SHELL.sh.buf
        /\ Visible(screen.row) = Visible(<<">", " ">> \o SHELL.sh.buf)

\* C20: the timer callback changes the tick counter only (line, screen and
\* arena as before, nothing written), no key event changes the tick
\* counter, and the ticks command prints the number of timer callbacks run
\* so far modulo the counter's width.
C20_TicksCountTimer ==
    /\ SHELL.sh.ticks = counts.invoked["timer"] % U64_MOD
    /\ cb.kind = "timer" =>
           /\ [SHELL.sh EXCEPT !.ticks = 0] = [cb.sh EXCEPT !.ticks = 0]
           /\ screen = cb.screen
           /\ written = <<>>
           /\ OFFSET = cb.OFFSET
    /\ cb.kind = "keyboard" => SHELL.sh.ticks = cb.sh.ticks
    /\ (/\ KeyRan(Newline)
        /\ Words(cb.sh.buf) # <<>>
        /\ Head(Words(cb.sh.buf)) = <<"t", "i", "c", "k", "s">>
        /\ ~panicked)
           => written = <<"\n">> \o Decimal(counts.invoked["timer"] % U64_MOD)
                        \o <<"\n", ">", " ">>

\* After one timer callback the ticks command printed 1.
C20_Witness ==
    /\ KeyRan(Newline)
    /\ cb.sh.buf = <<"t", "i", "c", "k", "s">>
    /\ counts.invoked["timer"] = 1
    /\ written = <<"\n", "1", "\n", ">", " ">>
    /\ phase = "halted"

\* The sizes of a sequence of blocks, added up
RECURSIVE SumSizes(_)
SumSizes(blocks) ==
    IF blocks = <<>> THEN 0 ELSE Head(blocks).size + SumSizes(Tail(blocks))

\* C15: calls of alloc that interleave on two processors act on the cursor
\* one at a time: the blocks they return never overlap, and once they have
\* returned the cursor accounts for every block handed out.
C15_CursorExclusive ==
    /\ \A i, j \in DOMAIN returned : i < j => ~Overlap(returned[i], returned[j])
    /\ (\A c \in CPUs : cpus[c].pc = "idle") => OFFSET >= SumSizes(returned)

====
